---- MODULE Spec2Model ----
(***************************************************************************)
(* A model of the transcript pipeline of TsangKwunHei/Transcribe:          *)
(*   - the log store (append_to_weekly_file, append_to_subject_file of     *)
(*     src/transcribe_v2.1.py),                                            *)
(*   - the silence chunker (split_on_silence of src/youtube.py),           *)
(*   - the transcription steps (transcribe_chunk / main of src/youtube.py  *)
(*     and whisper_transcribe of src/transcribe_v2.1.py),                  *)
(*   - the text steps (split_into_sentences,                               *)
(*     group_sentences_into_paragraphs, basic_cleaning, determine_subject  *)
(*     of src/transcribe_v2.1.py), over texts written as tokens,           *)
(*   - a whole run of main of src/transcribe_v2.1.py, and two runs that    *)
(*     append to one log at the same time.                                 *)
(*                                                                         *)
(* A text (a Python str) is modelled as the sequence str.split("\n")       *)
(* returns: a non-empty sequence of lines, the last of which is the part   *)
(* after the last newline ("" when the text ends with a newline).  The     *)
(* empty sequence stands for a file that does not exist.  Lines carry no   *)
(* leading or trailing blanks, so line.strip() is the line itself.         *)
(***************************************************************************)
EXTENDS Integers, Sequences, FiniteSets, TLC

VARIABLES
    now,        \* datetime.now(): the ordinal of the current calendar day
    weekly,     \* the weekly log files, by file name (year, week, month)
    subject,    \* the subject log files, by subject
    calls,      \* number of append calls made so far
    op,         \* the last append call: its kind, target, text and day
    prev,       \* the target file's content just before the last call
    repeat,     \* the last call repeats the call before it (same text, same day, weekly)
    tally,      \* per subject: the calendar month of the latest call and its calls
    audioLen,   \* split_on_silence: len(audio), in ms
    chunkLen,   \* split_on_silence: chunk_length_ms
    start_time, \* split_on_silence: the offset of the next chunk
    chunks,     \* split_on_silence: the chunks cut so far, as [s, e] of audio[s:e]
    cpc,        \* split_on_silence: "idle", "loop" or "done"
    prog,       \* the script that runs: "youtube" (youtube.py), "recorder" (transcribe_v2.1.py)
    nChunks,    \* youtube main: len(chunks)
    idx,        \* youtube main: the loop index i
    all_transcriptions,   \* youtube main: the texts collected so far
    final_transcription,  \* youtube main: " ".join(all_transcriptions)
    raw_text,   \* recorder main: what whisper_transcribe returned
    tempFiles,  \* the temporary audio files on disk
    handed,     \* the sizes of the payloads given to the transcription API
    outcomes,   \* what transcribe_chunk returned for each chunk, in order
    tpc,        \* "idle", "run" or "done"
    output_file,          \* youtube main: what was written to the transcription file
    announced,  \* youtube main: what the run printed at its end: "none", "saved" or "failed"
    raw_transcribed_text, \* recorder main: the transcript, as a sequence of tokens
    sentences,  \* recorder main: split_into_sentences(raw_transcribed_text)
    paragraphs, \* recorder main: group_sentences_into_paragraphs(sentences)
    cleaned_paragraphs,   \* recorder main: basic_cleaning(paragraphs)
    recleaned,  \* basic_cleaning applied to cleaned_paragraphs once more
    subject_found,        \* recorder main: determine_subject(raw_transcribed_text, ...)
    xpc,        \* "idle", "raw", "classified", "split", "grouped", "cleaned", "recleaned",
                \* and in a whole run of main: "cleaning", "ended"
    unpolished, \* basic_cleaning: each cleaned_block before process_with_gpt, in order
    gpt_failed, \* the paragraphs (by index) whose process_with_gpt call raised
    final_output,         \* recorder main: "\n\n".join(cleaned_paragraphs)
    report,     \* how the run ended: "none", "failed" (nothing to save) or "saved"
    shared,     \* two runs at once: the log file both append to
    shared_kind,          \* two runs at once: "weekly" or "subject", the kind of that file
    content_read,         \* two runs at once: what each run read from the file
    rpc,        \* two runs at once: where each run is: "start", "read" or "done"
    events,     \* two runs at once: the reads and writes so far, in order
    before      \* two runs at once: the file before the two runs

storeVars == <<now, weekly, subject, calls, op, prev, repeat, tally>>

chunkVars == <<audioLen, chunkLen, start_time, chunks, cpc>>

transVars == <<prog, nChunks, idx, all_transcriptions, final_transcription,
               raw_text, tempFiles, handed, outcomes, tpc, output_file, announced>>

textVars == <<raw_transcribed_text, sentences, paragraphs, cleaned_paragraphs,
              recleaned, subject_found, xpc>>

runVars == <<unpolished, gpt_failed, final_output, report>>

raceVars == <<shared, shared_kind, content_read, rpc, events, before>>

nonStoreVars == <<chunkVars, transVars, textVars, runVars, raceVars>>

nonChunkVars == <<storeVars, transVars, textVars, runVars, raceVars>>

nonTransVars == <<storeVars, chunkVars, textVars, runVars, raceVars>>

nonRaceVars == <<storeVars, chunkVars, transVars, textVars, runVars>>

nonTextVars == <<storeVars, chunkVars, transVars, runVars, raceVars>>

vars == <<now, weekly, subject, calls, op, prev, repeat, tally,
          audioLen, chunkLen, start_time, chunks, cpc,
          prog, nChunks, idx, all_transcriptions, final_transcription,
          raw_text, tempFiles, handed, outcomes, tpc, output_file, announced,
          raw_transcribed_text, sentences, paragraphs, cleaned_paragraphs,
          recleaned, subject_found, xpc,
          unpolished, gpt_failed, final_output, report,
          shared, shared_kind, content_read, rpc, events, before>>

----------------------------------------------------------------------------
(* Bounds of the model.                                                    *)

MaxCalls == 3
MaxDate == 8
DaysPerMonth == 2
MonthsPerYear == 2
DaysPerWeek == 3
MaxAudioLen == 6
MaxChunkLen == 3
MaxChunks == 3

----------------------------------------------------------------------------
(* The calendar: a day ordinal, and what strftime / isocalendar make of it. *)

Dates == 1..MaxDate

DaysPerYear == DaysPerMonth * MonthsPerYear

DayOfYear(t) == ((t - 1) % DaysPerYear) + 1

YearOf(t) == ((t - 1) \div DaysPerYear) + 1

\* current_date.strftime("%B")
MonthOf(t) == ((DayOfYear(t) - 1) \div DaysPerMonth) + 1

\* current_date.isocalendar()[1]
WeekOf(t) == ((DayOfYear(t) - 1) \div DaysPerWeek) + 1

\* f"w{week_number}_{month_str}_{year}.txt"
WeekFile(t) == <<WeekOf(t), MonthOf(t), YearOf(t)>>

WeekFiles == {WeekFile(t) : t \in Dates}

----------------------------------------------------------------------------
(* Lines of a log file.                                                    *)

Blank == [k |-> "blank", a |-> 0, b |-> 0]

\* a line of transcript text: its wording a, and its number of words b
TextLine(w, n) == [k |-> "text", a |-> w, b |-> n]

\* f"[{current_date_str}]" with "%A, %B %d, %Y": one header per calendar day
DateHeader(t) == [k |-> "date", a |-> t, b |-> 0]

\* f"[Month: {current_month} | Count: {count}]": the year is not part of it
MonthHeader(m, c) == [k |-> "month", a |-> m, b |-> c]

\* f"Total words: {total_words}"
TotalLine(n) == [k |-> "total", a |-> n, b |-> 0]

Absent == <<>>

EmptyText == <<Blank>>

\* len(line.split())
WordsOfLine(l) ==
    CASE l.k = "blank" -> 0
      [] l.k = "text" -> l.b
      [] l.k = "date" -> 4
      [] l.k = "month" -> 5
      [] l.k = "total" -> 3

RECURSIVE WordCount(_)
\* len(final_text.split())
WordCount(s) ==
    IF s = <<>> THEN 0 ELSE WordsOfLine(Head(s)) + WordCount(Tail(s))

\* The texts a run appends: one line, two paragraphs, and the empty text
Texts ==
    { <<TextLine(1, 2)>>,
      <<TextLine(2, 1), Blank, TextLine(3, 1)>>,
      EmptyText }

Subjects == {"ai"}

----------------------------------------------------------------------------
(* append_to_weekly_file                                                   *)

\* a slip: one line too many is skipped, lines[3:]
ExistingLines_Skip3(content) ==
    IF Len(content) > 3 THEN SubSeq(content, 4, Len(content)) ELSE EmptyText

\* f.readlines() and lines[2:] when len(lines) > 2, [] otherwise (also when
\* the file does not exist), as the text "".join(existing_lines)
ExistingLines(content) ==
    IF Len(content) > 2 THEN SubSeq(content, 3, Len(content)) ELSE EmptyText

\* a slip: today's header is not filtered out of the existing lines
FilterHeader_KeepAll(existing, header) == existing

\* [line for line in existing_lines if line.strip() != header_line], joined
FilterHeader(existing, header) ==
    LET n == Len(existing)
        front == SubSeq(existing, 1, n - 1)
        last == existing[n]
    IN  SelectSeq(front, LAMBDA l : l # header)
            \o <<IF last = header THEN Blank ELSE last>>

\* f"{header_line}\n{text}\n\n" + existing content
NewBlock(header, text, rest) == <<header>> \o text \o <<Blank>> \o rest

\* a slip: the words of the total line itself are counted too
WithTotal_CountsItself(final_text) ==
    <<TotalLine(WordCount(final_text) + 3), Blank>> \o final_text

\* f"Total words: {total_words}\n\n{final_text}"
WithTotal(final_text) == <<TotalLine(WordCount(final_text)), Blank>> \o final_text

WeeklyMerge(content, text, t) ==
    WithTotal(NewBlock(DateHeader(t), text,
                       FilterHeader(ExistingLines(content), DateHeader(t))))

----------------------------------------------------------------------------
(* append_to_subject_file                                                  *)

\* f.read(), "" when the file does not exist
ReadContent(content) == IF content = Absent THEN EmptyText ELSE content

\* content.splitlines()
SplitLines(s) ==
    IF s[Len(s)] = Blank THEN SubSeq(s, 1, Len(s) - 1) ELSE s

\* "\n".join(lines)
JoinLines(lines) == IF lines = <<>> THEN EmptyText ELSE lines

RECURSIVE LStrip(_)
\* str.lstrip(): leading newlines go, down to the first line with text
LStrip(s) ==
    IF Len(s) = 1 THEN s
    ELSE IF Head(s) = Blank THEN LStrip(Tail(s)) ELSE s

\* re.match(r'^\[Month: (\w+) \| Count: (\d+)\]$', lines[0])
IsMonthHeader(l) == l.k = "month"

\* the header of the current month on top: header_month.lower() == current_month.lower()
TopIsMonth(content, m) ==
    LET lines == SplitLines(ReadContent(content))
    IN  /\ lines # <<>>
        /\ IsMonthHeader(lines[1])
        /\ lines[1].a = m

\* a slip: the count of the header found is not taken over
HeaderCount_Reset(content, m) == 0

\* count = header_count when the top header is the current month's, 0 otherwise
HeaderCount(content, m) ==
    IF TopIsMonth(content, m) THEN SplitLines(ReadContent(content))[1].b ELSE 0

\* "\n".join(lines[1:]).lstrip() when the top header is the current month's
Remainder(content, m) ==
    IF TopIsMonth(content, m)
    THEN LStrip(JoinLines(Tail(SplitLines(ReadContent(content)))))
    ELSE ReadContent(content)

SubjectMerge(content, text, m) ==
    NewBlock(MonthHeader(m, HeaderCount(content, m) + 1), text, Remainder(content, m))

----------------------------------------------------------------------------
(* The store as a state machine: the clock moves on, runs append.          *)

NoOp == [kind |-> "none", file |-> <<>>, text |-> EmptyText, date |-> 0]

NoTally == [y |-> 0, m |-> 0, texts |-> <<>>, fresh |-> FALSE]

StoreIdle ==
    /\ now = 1
    /\ weekly = [f \in WeekFiles |-> Absent]
    /\ subject = [s \in Subjects |-> Absent]
    /\ calls = 0
    /\ op = NoOp
    /\ prev = Absent
    /\ repeat = FALSE
    /\ tally = [s \in Subjects |-> NoTally]

ChunkerIdle ==
    /\ audioLen = 0
    /\ chunkLen = 1
    /\ start_time = 0
    /\ chunks = <<>>
    /\ cpc = "idle"

\* the value None
None == <<-1>>

TransIdle ==
    /\ prog = "idle"
    /\ nChunks = 0
    /\ idx = 1
    /\ all_transcriptions = <<>>
    /\ final_transcription = None
    /\ raw_text = None
    /\ tempFiles = {}
    /\ handed = {}
    /\ outcomes = <<>>
    /\ tpc = "idle"
    /\ output_file = None
    /\ announced = "none"

RaceIdle ==
    /\ shared = Absent
    /\ shared_kind = "none"
    /\ content_read = <<>>
    /\ rpc = <<>>
    /\ events = <<>>
    /\ before = Absent

TextIdle ==
    /\ raw_transcribed_text = <<>>
    /\ sentences = <<>>
    /\ paragraphs = <<>>
    /\ cleaned_paragraphs = <<>>
    /\ recleaned = <<>>
    /\ subject_found = None
    /\ xpc = "idle"
    /\ unpolished = <<>>
    /\ gpt_failed = {}
    /\ final_output = EmptyText
    /\ report = "none"
    /\ RaceIdle

\* no log file exists yet
InitStore ==
    /\ StoreIdle
    /\ ChunkerIdle
    /\ TransIdle
    /\ TextIdle

\* time passes between two runs
Tick ==
    /\ \E t \in Dates : t > now /\ now' = t
    /\ UNCHANGED <<weekly, subject, calls, op, prev, repeat, tally>>
    /\ UNCHANGED nonStoreVars

AppendWeekly ==
    /\ calls < MaxCalls
    /\ \E text \in Texts :
        /\ weekly' = [weekly EXCEPT ![WeekFile(now)] = WeeklyMerge(@, text, now)]
        /\ op' = [kind |-> "weekly", file |-> WeekFile(now), text |-> text, date |-> now]
        /\ repeat' = (op.kind = "weekly" /\ op.text = text /\ op.date = now)
    /\ prev' = weekly[WeekFile(now)]
    /\ calls' = calls + 1
    /\ UNCHANGED <<now, subject, tally>>
    /\ UNCHANGED nonStoreVars

AppendSubject ==
    /\ calls < MaxCalls
    /\ \E text \in Texts, s \in Subjects :
        /\ subject' = [subject EXCEPT ![s] = SubjectMerge(@, text, MonthOf(now))]
        /\ op' = [kind |-> "subject", file |-> <<s>>, text |-> text, date |-> now]
        /\ prev' = subject[s]
        /\ tally' = [tally EXCEPT ![s] =
              LET same == @.y = YearOf(now) /\ @.m = MonthOf(now)
              IN  [y |-> YearOf(now), m |-> MonthOf(now),
                   texts |-> IF same THEN <<text>> \o @.texts ELSE <<text>>,
                   fresh |-> subject[s] = Absent \/ (@.fresh /\ same)]]
    /\ repeat' = FALSE
    /\ calls' = calls + 1
    /\ UNCHANGED <<now, weekly>>
    /\ UNCHANGED nonStoreVars

NextStore == Tick \/ AppendWeekly \/ AppendSubject

Spec == InitStore /\ [][NextStore]_vars

----------------------------------------------------------------------------
(* The store over files that are already on disk, not laid out as the      *)
(* append functions write them.                                            *)

\* contents found on disk: three plain lines; one plain line; a day's entry
\* with no total-words line above it; plain text above a month header
LegacyFiles ==
    { <<TextLine(7, 1), TextLine(8, 1), TextLine(9, 1), Blank>>,
      <<TextLine(7, 1), Blank>>,
      <<DateHeader(1), TextLine(7, 1), Blank, Blank>>,
      <<TextLine(7, 1), MonthHeader(1, 4), TextLine(8, 1)>> }

InitLegacy ==
    /\ ChunkerIdle
    /\ TransIdle
    /\ TextIdle
    /\ now = 1
    /\ \E w \in LegacyFiles :
          /\ weekly = [f \in WeekFiles |-> IF f = WeekFile(1) THEN w ELSE Absent]
          /\ subject = [s \in Subjects |-> w]
    /\ calls = 0
    /\ op = NoOp
    /\ prev = Absent
    /\ repeat = FALSE
    /\ tally = [s \in Subjects |-> NoTally]

SpecLegacy == InitLegacy /\ [][NextStore]_vars

----------------------------------------------------------------------------
(* split_on_silence (src/youtube.py)                                       *)

\* a slip: the cap without the min, end_time = start_time + chunk_length_ms
CandidateEnd_NoMin(start, len, total) == start + len

\* end_time = min(start_time + chunk_length_ms, len(audio))
CandidateEnd(start, len, total) ==
    IF start + len < total THEN start + len ELSE total

\* detect_nonsilent(chunk, ...): silence_points[-1][1], the end of the last
\* non-silent interval of a chunk of n ms, or 0 for the empty list
LastNonsilentEnds(n) == 0..n

\* a slip: no "if silence_points", an empty list snaps the end to the start
ChosenEnd_NoListCheck(start, len, total, sp) ==
    LET end_time == CandidateEnd(start, len, total)
    IN  IF end_time < total THEN start + sp ELSE end_time

\* the end of the chunk that starts at start, for detection result sp
ChosenEnd(start, len, total, sp) ==
    LET end_time == CandidateEnd(start, len, total)
    IN  IF end_time < total /\ sp # 0 THEN start + sp ELSE end_time

InitChunker ==
    /\ StoreIdle
    /\ TransIdle
    /\ TextIdle
    /\ audioLen \in 0..MaxAudioLen
    /\ chunkLen \in 1..MaxChunkLen
    /\ start_time = 0
    /\ chunks = <<>>
    /\ cpc = "loop"

\* one turn of the while loop
SplitStep ==
    /\ cpc = "loop"
    /\ start_time < audioLen
    /\ \E sp \in LastNonsilentEnds(CandidateEnd(start_time, chunkLen, audioLen) - start_time) :
          LET end_time == ChosenEnd(start_time, chunkLen, audioLen, sp)
          IN  /\ chunks' = Append(chunks, [s |-> start_time, e |-> end_time])
              /\ start_time' = end_time
    /\ UNCHANGED <<audioLen, chunkLen, cpc>>
    /\ UNCHANGED nonChunkVars

\* the loop condition fails: return chunks
SplitReturn ==
    /\ cpc = "loop"
    /\ ~(start_time < audioLen)
    /\ cpc' = "done"
    /\ UNCHANGED <<audioLen, chunkLen, start_time, chunks>>
    /\ UNCHANGED nonChunkVars

NextChunker == SplitStep \/ SplitReturn

SpecChunker == InitChunker /\ [][NextChunker]_vars

\* the loop is not held up: a turn that can be taken is taken
SpecChunkerFair == SpecChunker /\ WF_vars(NextChunker)

----------------------------------------------------------------------------
(* The transcription steps: transcribe_chunk and main of src/youtube.py,   *)
(* whisper_transcribe of src/transcribe_v2.1.py.                           *)
(*                                                                         *)
(* A transcript is a sequence of words, 0 standing for a single space;     *)
(* <<>> is the empty string.                                               *)

MAX_FILE_SIZE == 25 * 1024 * 1024

\* the sizes of an audio file: small, at the limit, over the limit
Sizes == {1, MAX_FILE_SIZE, MAX_FILE_SIZE + 1}

\* what the transcription API returns when it succeeds
TranscriptTexts == {<<>>, <<1>>, <<2, 0, 3>>}

\* f"downloads/temp_chunk_{i}.wav"
ChunkPath(i) == <<"temp_chunk", i>>

\* audio_file_path.replace(".wav", "_compressed.wav")
CompressedPath == <<"recorded_audio_compressed", 0>>

\* try: chunk.export(...); client.audio.transcriptions.create(...); return
\* transcript.text / except Exception: return None
ChunkResult(export, api, text) ==
    IF export = "ok" /\ api = "ok" THEN text ELSE None

\* the files after chunk.export: written, or left half-written by a failure
AfterExport(files, path, export) ==
    IF export = "fail" THEN files ELSE files \cup {path}

\* finally: if os.path.exists(chunk_path): os.remove(chunk_path)
AfterFinally(files, path) == files \ {path}

\* the API is called with the exported chunk once the export succeeded
ChunkHanded(export, size) == IF export = "ok" THEN {size} ELSE {}

\* a slip: every result is collected, None and "" too
Keep_All(all, transcription) == Append(all, transcription)

\* if transcription: all_transcriptions.append(transcription)
Keep(all, transcription) ==
    IF transcription # None /\ transcription # <<>>
    THEN Append(all, transcription)
    ELSE all

RECURSIVE JoinSpace(_)
\* " ".join(texts)
JoinSpace(texts) ==
    IF texts = <<>> THEN <<>>
    ELSE IF Len(texts) = 1 THEN texts[1]
    ELSE texts[1] \o <<0>> \o JoinSpace(Tail(texts))

\* whisper_transcribe(audio_file_path) for a file of `size` bytes: what it
\* returns, the payloads it gives to the API, the temporary files it leaves.
\* ffmpeg: "ok", "fail" (no output file) or "partial" (fails, output begun);
\* csize: the size of the re-encoded file; api: "ok" or "error".
WhisperTranscribe(size, ffmpeg, csize, api, text) ==
    IF size > MAX_FILE_SIZE
    THEN IF ffmpeg = "ok"
         THEN IF api = "ok"
              THEN [result |-> text, handed |-> {csize}, left |-> {}]
              ELSE [result |-> None, handed |-> {csize}, left |-> {CompressedPath}]
         ELSE [result |-> None, handed |-> {},
               left |-> IF ffmpeg = "partial" THEN {CompressedPath} ELSE {}]
    ELSE IF api = "ok"
         THEN [result |-> text, handed |-> {size}, left |-> {}]
         ELSE [result |-> None, handed |-> {size}, left |-> {}]

InitTranscribe ==
    /\ StoreIdle
    /\ ChunkerIdle
    /\ TextIdle
    /\ prog \in {"youtube", "recorder"}
    /\ nChunks \in 0..MaxChunks
    /\ prog = "recorder" => nChunks = 0
    /\ idx = 1
    /\ all_transcriptions = <<>>
    /\ final_transcription = None
    /\ raw_text = None
    /\ tempFiles = {}
    /\ handed = {}
    /\ outcomes = <<>>
    /\ tpc = "run"
    /\ output_file = None
    /\ announced = "none"

\* youtube main: one turn of "for i, chunk in enumerate(chunks, 1)"
TranscribeChunk ==
    /\ prog = "youtube"
    /\ tpc = "run"
    /\ idx <= nChunks
    /\ \E export \in {"ok", "fail", "partial"}, size \in Sizes,
          api \in {"ok", "error"}, text \in TranscriptTexts :
          LET transcription == ChunkResult(export, api, text)
          IN  /\ tempFiles' = AfterFinally(AfterExport(tempFiles, ChunkPath(idx), export),
                                           ChunkPath(idx))
              /\ handed' = handed \cup ChunkHanded(export, size)
              /\ all_transcriptions' = Keep(all_transcriptions, transcription)
              /\ outcomes' = Append(outcomes, transcription)
    /\ idx' = idx + 1
    /\ UNCHANGED <<prog, nChunks, final_transcription, raw_text, tpc,
                   output_file, announced>>
    /\ UNCHANGED nonTransVars

\* youtube main after the loop: final_transcription = " ".join(all_transcriptions)
\* is written to the transcription file and announced as saved
Combine ==
    /\ prog = "youtube"
    /\ tpc = "run"
    /\ idx > nChunks
    /\ final_transcription' = JoinSpace(all_transcriptions)
    /\ output_file' = final_transcription'
    /\ announced' = "saved"
    /\ tpc' = "done"
    /\ UNCHANGED <<prog, nChunks, idx, all_transcriptions, raw_text, tempFiles,
                   handed, outcomes>>
    /\ UNCHANGED nonTransVars

\* recorder main: raw_transcribed_text = whisper_transcribe(audio_file_path)
RecorderTranscribe ==
    /\ prog = "recorder"
    /\ tpc = "run"
    /\ \E size \in Sizes, ffmpeg \in {"ok", "fail", "partial"}, csize \in Sizes,
          api \in {"ok", "error"}, text \in TranscriptTexts :
          LET r == WhisperTranscribe(size, ffmpeg, csize, api, text)
          IN  /\ raw_text' = r.result
              /\ handed' = handed \cup r.handed
              /\ tempFiles' = tempFiles \cup r.left
    /\ tpc' = "done"
    /\ UNCHANGED <<prog, nChunks, idx, all_transcriptions, final_transcription, outcomes,
                   output_file, announced>>
    /\ UNCHANGED nonTransVars

NextTranscribe == TranscribeChunk \/ Combine \/ RecorderTranscribe

SpecTranscribe == InitTranscribe /\ [][NextTranscribe]_vars

----------------------------------------------------------------------------
(* What the claims about the store speak of.                               *)

\* the file the last call wrote, as it is now
CurrentFile ==
    IF op.kind = "weekly" THEN weekly[op.file]
    ELSE IF op.kind = "subject" THEN subject[op.file[1]]
    ELSE Absent

\* how many lines of s are the line l
Occ(l, s) == Cardinality({i \in 1..Len(s) : s[i] = l})

\* the lines of s that carry text or a header
NonBlank(s) == SelectSeq(s, LAMBDA l : l # Blank)

RECURSIVE RStripBlank(_)
\* s without its trailing empty lines
RStripBlank(s) ==
    IF s = <<>> THEN s
    ELSE IF s[Len(s)] = Blank THEN RStripBlank(SubSeq(s, 1, Len(s) - 1)) ELSE s

RECURSIVE Flatten(_)
\* the lines of a sequence of texts, one text after the other
Flatten(ts) == IF ts = <<>> THEN <<>> ELSE Head(ts) \o Flatten(Tail(ts))

RECURSIVE EntriesFrom(_, _, _, _)
\* the entries of s from line i on: a header line of kind hk opens an entry,
\* the lines down to the next header are its body
EntriesFrom(s, hk, i, acc) ==
    IF i > Len(s) THEN acc
    ELSE IF s[i].k = hk
         THEN EntriesFrom(s, hk, i + 1, Append(acc, [h |-> s[i], body |-> <<>>]))
         ELSE IF acc = <<>>
              THEN EntriesFrom(s, hk, i + 1, acc)
              ELSE EntriesFrom(s, hk, i + 1,
                       [acc EXCEPT ![Len(acc)].body = Append(@, s[i])])

Entries(s, hk) == EntriesFrom(s, hk, 1, <<>>)

\* an entry with the empty lines that end its body left out
Trimmed(e) == [h |-> e.h, body |-> RStripBlank(e.body)]

TrimmedAll(es) == [i \in 1..Len(es) |-> Trimmed(es[i])]

\* the header lines among the lines of s
HeaderLinesAt(s, hk) == {i \in 1..Len(s) : s[i].k = hk}

NoHeaderTwice(s, hk) ==
    \A i, j \in HeaderLinesAt(s, hk) : s[i] = s[j] => i = j

\* the month header lines of month m in s
MonthHeadersOf(s, m) == {i \in 1..Len(s) : s[i].k = "month" /\ s[i].a = m}

----------------------------------------------------------------------------
(* C1 - same-day idempotence of append_to_weekly_file.                     *)

\* C1 as claimed: a second appendWeekly(T) on the same day leaves the weekly
\* file as the first call left it (today's entry replaced, header and body).
C1_SecondCallSameFile == repeat => CurrentFile = prev

\* C1 as amended: a second appendWeekly(T) on the same day replaces only
\* today's header line: the file has exactly one header line for today, on
\* top of the new text, the body written by the first call stays below it,
\* so every text line of T is in the file once more than before.
C1_HeaderReplacedBodyKept ==
    repeat =>
        LET f == CurrentFile
            h == DateHeader(op.date)
        IN  /\ Occ(h, prev) = 1
            /\ Occ(h, f) = 1
            /\ f[3] = h
            /\ SubSeq(f, 4, 3 + Len(op.text)) = op.text
            /\ \A i \in 1..Len(f) :
                   f[i].k = "text" => Occ(f[i], f) = Occ(f[i], prev) + Occ(f[i], op.text)
            /\ NonBlank(SubSeq(f, 4 + Len(op.text), Len(f)))
                   = NonBlank(SubSeq(prev, 4, Len(prev)))

\* C1 witness: appendWeekly of a one-line text ran twice on one day and the
\* line is in the file twice.
C1_Witness ==
    /\ repeat
    /\ op.text = <<TextLine(1, 2)>>
    /\ Occ(TextLine(1, 2), CurrentFile) = 2

----------------------------------------------------------------------------
(* C2 - at most one entry per header.                                      *)

\* C2: starting from absent files, no date header line occurs twice in a
\* weekly file and no month header line occurs twice in a subject file.
C2_NoHeaderTwice ==
    /\ \A f \in WeekFiles : NoHeaderTwice(weekly[f], "date")
    /\ \A s \in Subjects : NoHeaderTwice(subject[s], "month")

----------------------------------------------------------------------------
(* C3 - the entries under other headers are kept.                          *)

----------------------------------------------------------------------------
(* C4 - appendSubject within the month of the top header.                  *)

\* C4: a call in the month of the file's top month header raises the count
\* by exactly 1, replaces that header line by the new one on top (no header
\* line of the month is added), puts the new text directly under it and all
\* earlier text below, in its order; n calls in one calendar month on an
\* absent file end with count n and the n texts, newest first.
C4_SameMonthCall ==
    /\ (op.kind = "subject" /\ TopIsMonth(prev, MonthOf(op.date))) =>
          LET f == CurrentFile
              m == MonthOf(op.date)
              n == Len(op.text)
          IN  /\ f[1] = MonthHeader(m, prev[1].b + 1)
              /\ Cardinality(MonthHeadersOf(f, m)) = Cardinality(MonthHeadersOf(prev, m))
              /\ SubSeq(f, 2, 1 + n) = op.text
              /\ f[2 + n] = Blank
              /\ NonBlank(SubSeq(f, 3 + n, Len(f))) = NonBlank(Tail(prev))
    /\ \A s \in Subjects :
          tally[s].fresh =>
              /\ subject[s][1] = MonthHeader(tally[s].m, Len(tally[s].texts))
              /\ NonBlank(Tail(subject[s])) = NonBlank(Flatten(tally[s].texts))

\* C4 witness: three calls in one calendar month on an absent file, the last
\* one on a file whose top header was that month's.
C4_Witness ==
    /\ op.kind = "subject"
    /\ TopIsMonth(prev, MonthOf(op.date))
    /\ tally[op.file[1]].fresh
    /\ Len(tally[op.file[1]].texts) = 3
    /\ tally[op.file[1]].texts[3] = <<TextLine(1, 2)>>

----------------------------------------------------------------------------
(* C5 - the count of the top month header.                                 *)

\* C5: the count in a subject file's top month header equals the number of
\* appendSubject calls made for the subject in the current calendar month
\* (the month of a given year), so it restarts at 1 when the month changed.
C5_CountIsCallsOfMonth ==
    \A s \in Subjects :
        subject[s] # Absent =>
            subject[s][1] = MonthHeader(tally[s].m, Len(tally[s].texts))

----------------------------------------------------------------------------
(* C7 - the chunks of split_on_silence.                                    *)

\* ceil(l / d)
CeilDiv(l, d) == (l + d - 1) \div d

\* the chunks cut so far start at 0, are in order and contiguous, and none
\* is longer than chunk_length_ms
ChunksContiguous ==
    \A i \in 1..Len(chunks) :
        /\ chunks[i].s <= chunks[i].e
        /\ chunks[i].e - chunks[i].s <= chunkLen
        /\ i = 1 => chunks[i].s = 0
        /\ i > 1 => chunks[i].s = chunks[i - 1].e

\* the returned chunks end at len(audio) and are at least ceil(L / D)
ChunksCover ==
    /\ audioLen > 0 => (chunks # <<>> /\ chunks[Len(chunks)].e = audioLen)
    /\ Len(chunks) >= CeilDiv(audioLen, chunkLen)

\* C7 as claimed: the returned chunks are in order, contiguous, start at 0,
\* end at L, each at most D long, at least ceil(L/D) of them, and a buffer
\* no longer than D yields exactly one chunk equal to the whole buffer.
C7_ChunksCoverOneIfShort ==
    /\ ChunksContiguous
    /\ cpc = "done" =>
          /\ ChunksCover
          /\ audioLen <= chunkLen => chunks = <<[s |-> 0, e |-> audioLen]>>

\* C7 as amended: the same, but it is a non-empty buffer no longer than D
\* that yields exactly one chunk; an empty buffer yields no chunk at all.
C7_ChunksCoverOneIfShortNonEmpty ==
    /\ ChunksContiguous
    /\ cpc = "done" =>
          /\ ChunksCover
          /\ (audioLen > 0 /\ audioLen <= chunkLen) =>
                chunks = <<[s |-> 0, e |-> audioLen]>>
          /\ audioLen = 0 => chunks = <<>>

\* C7 witness: a buffer longer than 2 D was cut into more chunks than
\* ceil(L/D), the first of them ending at a silence before the cap.
C7_Witness ==
    /\ cpc = "done"
    /\ audioLen > 2 * chunkLen
    /\ Len(chunks) > CeilDiv(audioLen, chunkLen)
    /\ chunks[1].e < chunkLen

----------------------------------------------------------------------------
(* C6 - a file without the expected header layout.                         *)

\* a weekly file starts with the total-words line and an empty line
WeeklyLayout(s) == Len(s) >= 2 /\ s[1].k = "total" /\ s[2] = Blank

\* a subject file starts with a month header
SubjectLayout(s) == IsMonthHeader(s[1])

\* the last call found a file that is not laid out as expected
FoundUnexpected ==
    /\ op.kind # "none"
    /\ prev # Absent
    /\ IF op.kind = "weekly" THEN ~WeeklyLayout(prev) ELSE ~SubjectLayout(prev)

\* s ends with the lines of t
EndsWith(s, t) ==
    Len(s) >= Len(t) /\ SubSeq(s, Len(s) - Len(t) + 1, Len(s)) = t

\* C6: a call that finds a file without the expected header layout keeps
\* all of its prior content verbatim after the new entry: no line of the
\* old file is discarded.
C6_UnexpectedContentKept == FoundUnexpected => EndsWith(CurrentFile, prev)

----------------------------------------------------------------------------
(* C8 - stitching the chunk transcripts.                                   *)

\* the texts of the chunks whose transcription succeeded
Succeeded == SelectSeq(outcomes, LAMBDA r : r # None)

\* the texts of the chunks whose transcription succeeded with some text
SucceededWithText == SelectSeq(outcomes, LAMBDA r : r # None /\ r # <<>>)

\* C8 as claimed: every chunk is processed, whatever failed, and the result
\* is the texts of exactly the successfully transcribed chunks, in chunk
\* order, separated by single spaces.
C8_AllSucceededJoined ==
    (prog = "youtube" /\ tpc = "done") =>
        /\ Len(outcomes) = nChunks
        /\ final_transcription = JoinSpace(Succeeded)

\* C8 as amended: every chunk is processed, whatever failed, and the result
\* is the texts of exactly the chunks whose transcription succeeded with a
\* non-empty text, in chunk order, separated by single spaces (a chunk that
\* is transcribed to the empty string is left out like a failed one).
C8_NonEmptySucceededJoined ==
    /\ prog = "youtube" => (Len(outcomes) = idx - 1 /\ idx <= nChunks + 1)
    /\ (prog = "youtube" /\ tpc = "done") =>
          /\ Len(outcomes) = nChunks
          /\ all_transcriptions = SucceededWithText
          /\ final_transcription = JoinSpace(SucceededWithText)

\* C8 witness: the first chunk and the last chunk were transcribed, the one
\* between them failed, and the result is the two texts and one space.
C8_Witness ==
    /\ prog = "youtube"
    /\ tpc = "done"
    /\ outcomes = <<<<1>>, None, <<2, 0, 3>>>>
    /\ final_transcription = <<1, 0, 2, 0, 3>>

----------------------------------------------------------------------------
(* C9 - temporary audio files.                                             *)

\* C9: every temporary audio file made for a transcription call (the
\* exported chunk, the re-encoded file) is gone when the step has returned,
\* on the success path and on every failure path.
C9_NoTempFileLeft == tempFiles = {}

----------------------------------------------------------------------------
(* C10 - the size limit of the transcription API.                          *)

\* C10: no payload larger than the byte limit is ever handed to the
\* transcription API, on any path that calls it.
C10_NoPayloadOverLimit == \A size \in handed : size <= MAX_FILE_SIZE

----------------------------------------------------------------------------
(* The text steps of src/transcribe_v2.1.py: split_into_sentences,         *)
(* group_sentences_into_paragraphs and basic_cleaning without a client.    *)
(*                                                                         *)
(* Here a text is the sequence of tokens str.split() returns, separated by *)
(* single blanks and with no line break.  A token is a word w, written     *)
(* with a capital first letter or not, followed by a punctuation mark p    *)
(* ("" when there is none).  The token with w = "" is a punctuation mark   *)
(* that stands alone, as filler removal leaves it ("um." becomes ".").     *)

MaxWords == 4

PARAGRAPH_SIZE == 3

Tok(w, cap, p) == [w |-> w, cap |-> cap, p |-> p]

Vocabulary ==
    { Tok("um", FALSE, ""), Tok("you", FALSE, ""), Tok("know", FALSE, ""),
      Tok("i", FALSE, ""), Tok("mean", FALSE, ""), Tok("it", FALSE, ""),
      Tok("cool", FALSE, "."), Tok("*", FALSE, "") }

\* "um so today I learned about neurons. it was uh cool."
Lecture ==
    << Tok("um", FALSE, ""), Tok("so", FALSE, ""), Tok("today", FALSE, ""),
       Tok("i", TRUE, ""), Tok("learned", FALSE, ""), Tok("about", FALSE, ""),
       Tok("neurons", FALSE, "."), Tok("it", FALSE, ""), Tok("was", FALSE, ""),
       Tok("uh", FALSE, ""), Tok("cool", FALSE, ".") >>

SeqsUpTo(S, n) == UNION { [1..k -> S] : k \in 0..n }

Transcripts == SeqsUpTo(Vocabulary, MaxWords) \cup {Lecture}

\* the words of filler_pattern; the two-word ones as pairs
Fillers == {"um", "uh", "like"}

FillerPairs == { <<"you", "know">>, <<"i", "mean">> }

\* words with no letter in front: str.upper() leaves them as they are
NoLetter == {"", "*"}

\* what is left of a token when its word is removed
Residue(t) == IF t.p = "" THEN <<>> ELSE <<Tok("", FALSE, t.p)>>

\* filler_pattern.sub("", line), then re.sub(r"\s+", " ", line).strip():
\* matches are taken from left to right and do not overlap
RECURSIVE FillerSub(_, _)
FillerSub(line, i) ==
    IF i > Len(line) THEN <<>>
    ELSE LET t == line[i]
         IN  IF t.w \in Fillers
               THEN Residue(t) \o FillerSub(line, i + 1)
             ELSE IF i < Len(line) /\ t.p = "" /\ <<t.w, line[i + 1].w>> \in FillerPairs
               THEN Residue(line[i + 1]) \o FillerSub(line, i + 2)
             ELSE <<t>> \o FillerSub(line, i + 1)

\* line[0].upper() + line[1:]
Capitalize(line) ==
    IF line = <<>> \/ line[1].w \in NoLetter THEN line
    ELSE [line EXCEPT ![1].cap = TRUE]

\* the body of "for line in lines" for a line that is not empty
CleanLine(line) ==
    LET l == FillerSub(line, 1)
    IN  IF Len(l) >= 2 /\ l[1] = Tok("*", FALSE, "")
          THEN <<l[1]>> \o Capitalize(Tail(l))
          ELSE Capitalize(l)

\* one turn of "for block in final_paragraph_blocks", client = None;
\* the block is one line
CleanBlock(block) == IF block = <<>> THEN <<>> ELSE CleanLine(block)

basic_cleaning(final_paragraph_blocks) ==
    [i \in 1..Len(final_paragraph_blocks) |-> CleanBlock(final_paragraph_blocks[i])]

\* split_into_sentences from token i on; chunk is the text since the last mark
RECURSIVE SplitFrom(_, _, _)
SplitFrom(text, i, chunk) ==
    IF i > Len(text) THEN (IF chunk = <<>> THEN <<>> ELSE <<chunk>>)
    ELSE LET t == text[i]
         IN  IF t.p = "" THEN SplitFrom(text, i + 1, Append(chunk, t))
             ELSE IF t.w = "" /\ chunk # <<>>
               THEN <<[chunk EXCEPT ![Len(chunk)].p = t.p]>> \o SplitFrom(text, i + 1, <<>>)
             ELSE <<Append(chunk, t)>> \o SplitFrom(text, i + 1, <<>>)

split_into_sentences(text) == SplitFrom(text, 1, <<>>)

\* " ".join(group)
RECURSIVE JoinTokens(_)
JoinTokens(group) ==
    IF group = <<>> THEN <<>> ELSE Head(group) \o JoinTokens(Tail(group))

RECURSIVE group_sentences_into_paragraphs(_, _)
group_sentences_into_paragraphs(sents, paragraph_size) ==
    IF sents = <<>> THEN <<>>
    ELSE LET n == IF Len(sents) < paragraph_size THEN Len(sents) ELSE paragraph_size
         IN  <<JoinTokens(SubSeq(sents, 1, n))>>
                \o group_sentences_into_paragraphs(SubSeq(sents, n + 1, Len(sents)),
                                                   paragraph_size)

InitText ==
    /\ StoreIdle
    /\ ChunkerIdle
    /\ TransIdle
    /\ raw_transcribed_text \in Transcripts
    /\ sentences = <<>>
    /\ paragraphs = <<>>
    /\ cleaned_paragraphs = <<>>
    /\ recleaned = <<>>
    /\ subject_found = None
    /\ xpc = "raw"
    /\ unpolished = <<>>
    /\ gpt_failed = {}
    /\ final_output = EmptyText
    /\ report = "none"
    /\ RaceIdle

SplitIntoSentences ==
    /\ xpc = "raw"
    /\ sentences' = split_into_sentences(raw_transcribed_text)
    /\ xpc' = "split"
    /\ UNCHANGED <<raw_transcribed_text, paragraphs, cleaned_paragraphs, recleaned, subject_found>>
    /\ UNCHANGED nonTextVars

GroupSentences ==
    /\ xpc = "split"
    /\ paragraphs' = group_sentences_into_paragraphs(sentences, PARAGRAPH_SIZE)
    /\ xpc' = "grouped"
    /\ UNCHANGED <<raw_transcribed_text, sentences, cleaned_paragraphs, recleaned, subject_found>>
    /\ UNCHANGED nonTextVars

BasicCleaning ==
    /\ xpc = "grouped"
    /\ cleaned_paragraphs' = basic_cleaning(paragraphs)
    /\ xpc' = "cleaned"
    /\ UNCHANGED <<raw_transcribed_text, sentences, paragraphs, recleaned, subject_found>>
    /\ UNCHANGED nonTextVars

\* the cleaned paragraphs are cleaned once more
CleanAgain ==
    /\ xpc = "cleaned"
    /\ recleaned' = basic_cleaning(cleaned_paragraphs)
    /\ xpc' = "recleaned"
    /\ UNCHANGED <<raw_transcribed_text, sentences, paragraphs, cleaned_paragraphs, subject_found>>
    /\ UNCHANGED nonTextVars

NextText == SplitIntoSentences \/ GroupSentences \/ BasicCleaning \/ CleanAgain

SpecText == InitText /\ [][NextText]_vars

\* C11: basic_cleaning without a client is idempotent: cleaning the cleaned
\* paragraphs again gives the cleaned paragraphs.
C11_CleanIdempotent ==
    xpc = "recleaned" => recleaned = cleaned_paragraphs

\* a filler word, or a two-word filler, is in the line
HasFiller(line) ==
    \E i \in 1..Len(line) :
        \/ line[i].w \in Fillers
        \/ i < Len(line) /\ line[i].p = "" /\ <<line[i].w, line[i + 1].w>> \in FillerPairs

\* the sentence begins with a capital letter (a sentence that begins with a
\* mark has no letter to be judged)
StartsWithCapital(sentence) ==
    sentence[1].w \in NoLetter \/ sentence[1].cap

\* the sentences of the normalized text
CleanedSentences ==
    UNION { { split_into_sentences(cleaned_paragraphs[i])[j] :
                j \in 1..Len(split_into_sentences(cleaned_paragraphs[i])) } :
            i \in 1..Len(cleaned_paragraphs) }

\* C12: in the normalized transcript every sentence, not only the first of a
\* paragraph, is free of filler words and starts with a capital letter.
C12_EverySentenceNormalized ==
    xpc = "cleaned" =>
        \A sentence \in CleanedSentences :
            ~HasFiller(sentence) /\ StartsWithCapital(sentence)

----------------------------------------------------------------------------
(* determine_subject of src/transcribe_v2.1.py.  The windows are strings,  *)
(* so a token is spelled out here: a string is a sequence of characters.   *)

MaxTokens == 11

SUBJECT_KEYWORDS ==
    << <<"a", "i">>,
       <<"b", "i", "o", "l", "o", "g", "y">>,
       <<"r", "e", "a", "d", "i", "n", "g", " ", "n", "o", "t", "e">> >>

Spelling ==
    [ai |-> <<"a", "i">>,
     said |-> <<"s", "a", "i", "d">>,
     biology |-> <<"b", "i", "o", "l", "o", "g", "y">>,
     reading |-> <<"r", "e", "a", "d", "i", "n", "g">>,
     note |-> <<"n", "o", "t", "e">>,
     the |-> <<"t", "h", "e">>,
     um |-> <<"u", "m">>,
     it |-> <<"i", "t">>,
     cool |-> <<"c", "o", "o", "l">>]

UpperCase == [a |-> "A", s |-> "S", b |-> "B", r |-> "R", n |-> "N", t |-> "T"]

\* str.lower() of one character
LowerChar(c) ==
    IF \E l \in DOMAIN UpperCase : UpperCase[l] = c
      THEN CHOOSE l \in DOMAIN UpperCase : UpperCase[l] = c
      ELSE c

\* str.lower()
Lower(str) == [i \in 1..Len(str) |-> LowerChar(str[i])]

\* the characters of a token
Spell(t) ==
    LET word == Spelling[t.w]
    IN  (IF t.cap THEN <<UpperCase[Head(word)]>> \o Tail(word) ELSE word)
           \o (IF t.p = "" THEN <<>> ELSE <<t.p>>)

\* " ".join(words)
RECURSIVE JoinWords(_)
JoinWords(words) ==
    IF words = <<>> THEN <<>>
    ELSE IF Len(words) = 1 THEN Spell(words[1])
    ELSE Spell(words[1]) \o <<" ">> \o JoinWords(Tail(words))

\* "sub in str"
In(sub, str) ==
    \E i \in 0..(Len(str) - Len(sub)) : SubSeq(str, i + 1, i + Len(sub)) = sub

\* words[:5]
FirstFive(words) == SubSeq(words, 1, IF Len(words) < 5 THEN Len(words) ELSE 5)

LastFive_All(words) == words

\* words[-5:]
LastFive(words) == SubSeq(words, IF Len(words) < 5 THEN 1 ELSE Len(words) - 4, Len(words))

\* "for keyword in keywords", from the i-th keyword on
RECURSIVE MatchFrom(_, _, _, _)
MatchFrom(keywords, i, first_five, last_five) ==
    IF i > Len(keywords) THEN None
    ELSE IF In(Lower(keywords[i]), first_five) \/ In(Lower(keywords[i]), last_five)
      THEN Lower(keywords[i])
    ELSE MatchFrom(keywords, i + 1, first_five, last_five)

determine_subject(text, keywords) ==
    LET words == text
    IN  IF words = <<>> THEN None
        ELSE MatchFrom(keywords, 1, Lower(JoinWords(FirstFive(words))),
                                    Lower(JoinWords(LastFive(words))))

\* the tokens that make a difference to the subject, and the one that does not
KeyTokens ==
    { Tok("ai", FALSE, ""), Tok("ai", TRUE, "."), Tok("said", FALSE, ""),
      Tok("biology", TRUE, ""), Tok("reading", FALSE, ""), Tok("note", FALSE, "") }

Padding == Tok("the", FALSE, "")

\* transcripts of up to MaxTokens tokens, at most two of them key tokens
Spoken ==
    UNION { { [i \in 1..n |-> Padding] } \cup
            { [i \in 1..n |-> IF i = a THEN x ELSE IF i = b THEN y ELSE Padding] :
                a \in 1..n, b \in 1..n, x \in KeyTokens, y \in KeyTokens \cup {Padding} } :
            n \in 0..MaxTokens }

InitClassify ==
    /\ StoreIdle
    /\ ChunkerIdle
    /\ TransIdle
    /\ raw_transcribed_text \in Spoken
    /\ sentences = <<>>
    /\ paragraphs = <<>>
    /\ cleaned_paragraphs = <<>>
    /\ recleaned = <<>>
    /\ subject_found = None
    /\ xpc = "raw"
    /\ unpolished = <<>>
    /\ gpt_failed = {}
    /\ final_output = EmptyText
    /\ report = "none"
    /\ RaceIdle

DetermineSubject ==
    /\ xpc = "raw"
    /\ subject_found' = determine_subject(raw_transcribed_text, SUBJECT_KEYWORDS)
    /\ xpc' = "classified"
    /\ UNCHANGED <<raw_transcribed_text, sentences, paragraphs, cleaned_paragraphs, recleaned>>
    /\ UNCHANGED nonTextVars

NextClassify == DetermineSubject

SpecClassify == InitClassify /\ [][NextClassify]_vars

\* the lower-cased text of tokens lo..hi of the transcript
WindowText(lo, hi) == Lower(JoinWords(SubSeq(raw_transcribed_text, lo, hi)))

\* the i-th keyword occurs in the first five or in the last five tokens
InAWindow(i) ==
    LET n == Len(raw_transcribed_text)
    IN  \E w \in { <<1, IF n < 5 THEN n ELSE 5>>, <<IF n < 5 THEN 1 ELSE n - 4, n>> } :
            In(SUBJECT_KEYWORDS[i], WindowText(w[1], w[2]))

\* C13: determine_subject returns the first keyword of the list that occurs in
\* the lower-cased first-five-token or last-five-token window; it returns None
\* exactly when there is no token or no keyword occurs in a window; a keyword
\* that occurs only outside both windows is never returned.
C13_FirstKeywordInWindows ==
    xpc = "classified" =>
        LET hits == { i \in 1..Len(SUBJECT_KEYWORDS) : InAWindow(i) }
            n == Len(raw_transcribed_text)
        IN  /\ (subject_found = None) <=> (n = 0 \/ hits = {})
            /\ (n > 0 /\ hits # {}) =>
                  \E i \in hits : /\ subject_found = SUBJECT_KEYWORDS[i]
                                  /\ \A j \in hits : i <= j
            /\ \A i \in 1..Len(SUBJECT_KEYWORDS) :
                  (In(SUBJECT_KEYWORDS[i], WindowText(1, n)) /\ ~InAWindow(i))
                      => subject_found # SUBJECT_KEYWORDS[i]

\* "biology" is among the first five tokens, "ai" only in the sixth of eleven
C13_Witness ==
    /\ xpc = "classified"
    /\ Len(raw_transcribed_text) = 11
    /\ raw_transcribed_text[6] = Tok("ai", FALSE, "")
    /\ raw_transcribed_text[2] = Tok("biology", TRUE, "")
    /\ subject_found = SUBJECT_KEYWORDS[2]

----------------------------------------------------------------------------
(* A whole run of main of src/transcribe_v2.1.py: transcribe, find the     *)
(* subject, format, clean each paragraph with the GPT client, append to    *)
(* the subject file or to the weekly file.  The day does not change: the   *)
(* runs here are about what is written where, not about the headers.       *)

MaxRuns == 2

\* the subject logs of a run: one per keyword
RunSubjects == { SUBJECT_KEYWORDS[i] : i \in 1..Len(SUBJECT_KEYWORDS) }

\* what whisper_transcribe can return: None or "" (both written <<>>, both
\* false in "if not raw_transcribed_text"), or a text
RunTranscripts ==
    { <<>>,
      << Tok("um", FALSE, ""), Tok("ai", TRUE, ""), Tok("note", FALSE, ".") >>,
      << Tok("biology", TRUE, "."), Tok("it", FALSE, ""), Tok("cool", FALSE, ".") >>,
      << Tok("reading", FALSE, ""), Tok("note", FALSE, "."), Tok("um", FALSE, "") >>,
      << Tok("it", FALSE, ""), Tok("cool", FALSE, ".") >>,
      << Tok("um", FALSE, "") >>,
      << Tok("cool", FALSE, "."), Tok("cool", FALSE, "."), Tok("cool", FALSE, "."),
         Tok("it", FALSE, "") >> }

\* the wording of a line of tokens as a number, a different one for
\* different lines of up to five tokens
WordList == <<"", "um", "ai", "note", "biology", "it", "cool", "reading", "the">>

WordId(w) == CHOOSE i \in 1..Len(WordList) : WordList[i] = w

TokId(t) == 4 * WordId(t.w) + (IF t.cap THEN 2 ELSE 0) + (IF t.p = "" THEN 0 ELSE 1)

RECURSIVE Wording(_)
Wording(line) ==
    IF line = <<>> THEN 0
    ELSE TokId(Head(line)) + 4 * (Len(WordList) + 1) * Wording(Tail(line))

\* a paragraph of tokens as a text of the log store
ToText(line) == IF line = <<>> THEN EmptyText ELSE <<TextLine(Wording(line), Len(line))>>

\* a line of a reply that remove_meta_talk drops ("Certainly! ...", "Sure, ...")
MetaLine == [k |-> "meta", a |-> 0, b |-> 1]

\* the paragraph as GPT rewrote it
Rewritten == TextLine(-1, 2)

\* response.choices[0].message.content.strip()
Replies == { <<Rewritten>>, <<MetaLine, Blank, Rewritten>>, <<MetaLine>> }

\* what a call of client.chat.completions.create does
GptOutcomes ==
    {[raised |-> TRUE, content |-> EmptyText]}
        \cup { [raised |-> FALSE, content |-> c] : c \in Replies }

remove_meta_talk(text) ==
    LET cleaned_lines == SelectSeq(text, LAMBDA line : line.k # "meta")
    IN  IF cleaned_lines = <<>> THEN EmptyText ELSE cleaned_lines

process_with_gpt_Blank(text, outcome) ==
    IF outcome.raised THEN EmptyText ELSE remove_meta_talk(outcome.content)

process_with_gpt(text, outcome) ==
    IF outcome.raised THEN text ELSE remove_meta_talk(outcome.content)

\* "\n\n".join(texts)
RECURSIVE JoinParagraphs(_)
JoinParagraphs(texts) ==
    IF texts = <<>> THEN EmptyText
    ELSE IF Len(texts) = 1 THEN texts[1]
    ELSE texts[1] \o <<Blank>> \o JoinParagraphs(Tail(texts))

HasSubject_Never(found) == FALSE

\* "if subject:"
HasSubject(found) == found # None

InitRun ==
    /\ now = 1
    /\ weekly = [f \in WeekFiles |-> Absent]
    /\ subject = [s \in RunSubjects |-> Absent]
    /\ calls = 0
    /\ op = NoOp
    /\ prev = Absent
    /\ repeat = FALSE
    /\ tally = [s \in RunSubjects |-> NoTally]
    /\ ChunkerIdle
    /\ TransIdle
    /\ TextIdle

\* main up to "whisper_transcribe(audio_file_path)"
StartRun ==
    /\ xpc \in {"idle", "ended"}
    /\ calls < MaxRuns
    /\ raw_transcribed_text' \in RunTranscripts
    /\ sentences' = <<>>
    /\ paragraphs' = <<>>
    /\ cleaned_paragraphs' = <<>>
    /\ subject_found' = None
    /\ unpolished' = <<>>
    /\ gpt_failed' = {}
    /\ final_output' = EmptyText
    /\ report' = "none"
    /\ xpc' = "raw"
    /\ calls' = calls + 1
    /\ UNCHANGED <<now, weekly, subject, op, prev, repeat, tally, recleaned>>
    /\ UNCHANGED <<chunkVars, transVars, raceVars>>

\* "if not raw_transcribed_text": print and return
FailEmpty ==
    /\ xpc = "raw"
    /\ raw_transcribed_text = <<>>
    /\ report' = "failed"
    /\ xpc' = "ended"
    /\ UNCHANGED <<raw_transcribed_text, sentences, paragraphs, cleaned_paragraphs,
                   recleaned, subject_found, unpolished, gpt_failed, final_output>>
    /\ UNCHANGED <<storeVars, chunkVars, transVars, raceVars>>

\* Part 2 and Part 3 of main
Format ==
    /\ xpc = "raw"
    /\ raw_transcribed_text # <<>>
    /\ subject_found' = determine_subject(raw_transcribed_text, SUBJECT_KEYWORDS)
    /\ sentences' = split_into_sentences(raw_transcribed_text)
    /\ paragraphs' = group_sentences_into_paragraphs(sentences', PARAGRAPH_SIZE)
    /\ xpc' = "cleaning"
    /\ UNCHANGED <<raw_transcribed_text, cleaned_paragraphs, recleaned,
                   unpolished, gpt_failed, final_output, report>>
    /\ UNCHANGED <<storeVars, chunkVars, transVars, raceVars>>

\* basic_cleaning(paragraphs, client): one turn of "for block in ..."
PolishBlock ==
    /\ xpc = "cleaning"
    /\ Len(cleaned_paragraphs) < Len(paragraphs)
    /\ LET i == Len(cleaned_paragraphs) + 1
           cleaned_block == ToText(CleanBlock(paragraphs[i]))
       IN  IF cleaned_block # EmptyText
             THEN \E outcome \in GptOutcomes :
                    /\ cleaned_paragraphs' =
                          Append(cleaned_paragraphs, process_with_gpt(cleaned_block, outcome))
                    /\ gpt_failed' = IF outcome.raised THEN gpt_failed \cup {i} ELSE gpt_failed
                    /\ unpolished' = Append(unpolished, cleaned_block)
             ELSE /\ cleaned_paragraphs' = Append(cleaned_paragraphs, cleaned_block)
                  /\ unpolished' = Append(unpolished, cleaned_block)
                  /\ UNCHANGED gpt_failed
    /\ UNCHANGED <<raw_transcribed_text, sentences, paragraphs, recleaned,
                   subject_found, xpc, final_output, report>>
    /\ UNCHANGED <<storeVars, chunkVars, transVars, raceVars>>

\* Part 4 (the join) and Part 5 of main
AppendRun ==
    /\ xpc = "cleaning"
    /\ Len(cleaned_paragraphs) = Len(paragraphs)
    /\ final_output' = JoinParagraphs(cleaned_paragraphs)
    /\ IF HasSubject(subject_found)
         THEN /\ subject' = [subject EXCEPT
                    ![subject_found] = SubjectMerge(@, final_output', MonthOf(now))]
              /\ UNCHANGED weekly
         ELSE /\ weekly' = [weekly EXCEPT
                    ![WeekFile(now)] = WeeklyMerge(@, final_output', now)]
              /\ UNCHANGED subject
    /\ report' = "saved"
    /\ xpc' = "ended"
    /\ UNCHANGED <<now, calls, op, prev, repeat, tally>>
    /\ UNCHANGED <<raw_transcribed_text, sentences, paragraphs, cleaned_paragraphs,
                   recleaned, subject_found, unpolished, gpt_failed>>
    /\ UNCHANGED <<chunkVars, transVars, raceVars>>

NextRun == StartRun \/ FailEmpty \/ Format \/ PolishBlock \/ AppendRun

SpecRun == InitRun /\ [][NextRun]_vars

\* the log a run appends to
RunTarget ==
    IF subject_found = None THEN weekly[WeekFile(now)] ELSE subject[subject_found]

\* C14: when the GPT call fails for a paragraph, that paragraph stays as
\* basic cleaning left it, the paragraphs after it are still processed, and
\* the run still appends an entry, which holds the unpolished text.
C14_FailedPolishKeepsText ==
    (xpc = "ended" /\ report = "saved") =>
        /\ Len(cleaned_paragraphs) = Len(paragraphs)
        /\ \A i \in gpt_failed :
              /\ cleaned_paragraphs[i] = ToText(CleanBlock(paragraphs[i]))
              /\ cleaned_paragraphs[i] = unpolished[i]
              /\ \A j \in 1..Len(unpolished[i]) : Occ(unpolished[i][j], final_output) >= 1
              /\ \A j \in 1..Len(unpolished[i]) : Occ(unpolished[i][j], RunTarget) >= 1

\* the call failed for the first paragraph and succeeded for the second
C14_Witness ==
    /\ xpc = "ended"
    /\ report = "saved"
    /\ calls = 1
    /\ Len(paragraphs) = 2
    /\ gpt_failed = {1}
    /\ cleaned_paragraphs[2] = <<Rewritten>>
    /\ RunTarget # Absent

\* C19: a run whose transcript is not empty writes to exactly one log: the
\* subject log of the keyword that determine_subject finds in the raw
\* transcript, or the weekly log when it finds none; no other log changes,
\* and no other step of a run writes to a log.
C19_WritesOneLog ==
    [][ LET found == determine_subject(raw_transcribed_text, SUBJECT_KEYWORDS)
        IN  IF xpc = "cleaning" /\ xpc' = "ended"
              THEN /\ raw_transcribed_text # <<>>
                   /\ IF found # None
                        THEN /\ subject'[found] # subject[found]
                             /\ \A s \in RunSubjects \ {found} : subject'[s] = subject[s]
                             /\ weekly' = weekly
                        ELSE /\ weekly'[WeekFile(now)] # weekly[WeekFile(now)]
                             /\ \A f \in WeekFiles \ {WeekFile(now)} : weekly'[f] = weekly[f]
                             /\ subject' = subject
              ELSE UNCHANGED <<weekly, subject>> ]_vars

\* the second run found "biology" and wrote its log, after a run that wrote
\* the weekly log
C19_Witness ==
    /\ xpc = "ended"
    /\ report = "saved"
    /\ calls = 2
    /\ subject_found = SUBJECT_KEYWORDS[2]
    /\ subject[SUBJECT_KEYWORDS[2]] # Absent
    /\ weekly[WeekFile(now)] # Absent
    /\ subject[SUBJECT_KEYWORDS[1]] = Absent

\* C15: a run that got past the download ends in exactly one of two ways: the
\* transcript was written and announced as saved, or a failure was announced
\* and nothing was written; when every chunk failed, the empty transcript is
\* announced as a failure and not saved.
C15_SavedOrFailed ==
    (prog = "youtube" /\ tpc = "done") =>
        /\ \/ announced = "saved" /\ output_file = final_transcription
           \/ announced = "failed" /\ output_file = None
        /\ (nChunks > 0 /\ \A i \in 1..Len(outcomes) : outcomes[i] = None)
              => (announced = "failed" /\ output_file = None)

\* the words on the lines i, i + 1, ... of s
RECURSIVE WordsFrom(_, _)
WordsFrom(s, i) == IF i > Len(s) THEN 0 ELSE WordsOfLine(s[i]) + WordsFrom(s, i + 1)

\* C16: after any sequence of weekly appends, a weekly file starts with the
\* line "Total words: n" and an empty line, and n is the number of words of
\* everything below these two lines, the date headers included.
C16_TotalCountsTheRest ==
    \A f \in WeekFiles :
        weekly[f] # Absent =>
            /\ Len(weekly[f]) > 2
            /\ weekly[f][1].k = "total"
            /\ weekly[f][2] = Blank
            /\ weekly[f][1].a = WordsFrom(weekly[f], 3)

\* a weekly file with the entries of two days and text below both headers
C16_Witness ==
    /\ op.kind = "weekly"
    /\ Cardinality({i \in 1..Len(CurrentFile) : CurrentFile[i].k = "date"}) = 2
    /\ Cardinality({i \in 1..Len(CurrentFile) : CurrentFile[i].k = "text"}) >= 3
    /\ CurrentFile[1] = TotalLine(WordsFrom(CurrentFile, 3))
    /\ CurrentFile[1].a > 8

----------------------------------------------------------------------------
(* Two runs that append to the same log at the same time.  Each append     *)
(* function reads the whole file, merges in memory and writes the whole    *)
(* file back, with no lock: a run's read and its write are two steps, and  *)
(* the steps of the other run can come between them.                       *)

Runs == {1, 2}

\* the text run p appends
RaceText(p) == <<TextLine(10 + p, p)>>

\* what the append function of the kind writes for what it read
Merged(kind, content, text) ==
    IF kind = "weekly" THEN WeeklyMerge(content, text, now)
    ELSE SubjectMerge(content, text, MonthOf(now))

\* the file before the two runs: absent, or as one or two appends left it
RaceFiles(kind) ==
    {Absent}
        \cup { Merged(kind, Absent, t) : t \in Texts }
        \cup { Merged(kind, Merged(kind, Absent, t), u) : t \in Texts, u \in Texts }

WriteBase_Reread(read, current) == current

\* what a run merges its text into: the content it read, whatever the file
\* holds by now
WriteBase(read, current) == read

InitRace ==
    /\ StoreIdle
    /\ ChunkerIdle
    /\ TransIdle
    /\ raw_transcribed_text = <<>>
    /\ sentences = <<>>
    /\ paragraphs = <<>>
    /\ cleaned_paragraphs = <<>>
    /\ recleaned = <<>>
    /\ subject_found = None
    /\ xpc = "idle"
    /\ unpolished = <<>>
    /\ gpt_failed = {}
    /\ final_output = EmptyText
    /\ report = "none"
    /\ shared_kind \in {"weekly", "subject"}
    /\ shared \in RaceFiles(shared_kind)
    /\ before = shared
    /\ content_read = [p \in Runs |-> Absent]
    /\ rpc = [p \in Runs |-> "start"]
    /\ events = <<>>

\* a run reads the file: "with open(file_path, 'r') ..."
RaceRead(p) ==
    /\ rpc[p] = "start"
    /\ content_read' = [content_read EXCEPT ![p] = shared]
    /\ rpc' = [rpc EXCEPT ![p] = "read"]
    /\ events' = Append(events, [p |-> p, step |-> "read"])
    /\ UNCHANGED <<shared, shared_kind, before>>
    /\ UNCHANGED nonRaceVars

\* a run merges and writes the file: "with open(file_path, 'w') ..."
RaceWrite(p) ==
    /\ rpc[p] = "read"
    /\ shared' = Merged(shared_kind, WriteBase(content_read[p], shared), RaceText(p))
    /\ rpc' = [rpc EXCEPT ![p] = "done"]
    /\ events' = Append(events, [p |-> p, step |-> "write"])
    /\ UNCHANGED <<shared_kind, content_read, before>>
    /\ UNCHANGED nonRaceVars

NextRace == \E p \in Runs : RaceRead(p) \/ RaceWrite(p)

SpecRace == InitRace /\ [][NextRace]_vars

\* both runs read before either wrote
BothReadFirst == events[1].step = "read" /\ events[2].step = "read"

\* the number in the month header on top of a subject file
CountOnTop(content) == HeaderCount(content, MonthOf(now))

\* C17: when two runs append to the same file and both read before either
\* writes, the file ends up as the last writer alone left it: it holds that
\* run's entry only, and a subject file's count is raised by 1; when one run
\* follows the other, both entries are in the file (and the count is raised
\* by 2).
C17_LostUpdate ==
    (\A p \in Runs : rpc[p] = "done") =>
        LET last == events[4].p
            first == CHOOSE p \in Runs : p # last
        IN  IF BothReadFirst
              THEN /\ shared = Merged(shared_kind, before, RaceText(last))
                   /\ Occ(RaceText(last)[1], shared) = 1
                   /\ Occ(RaceText(first)[1], shared) = 0
                   /\ shared_kind = "subject" => CountOnTop(shared) = CountOnTop(before) + 1
              ELSE /\ Occ(RaceText(last)[1], shared) = 1
                   /\ Occ(RaceText(first)[1], shared) = 1
                   /\ shared_kind = "subject" => CountOnTop(shared) = CountOnTop(before) + 2

\* both runs read a subject file that already had an entry, then both wrote
C17_Witness ==
    /\ \A p \in Runs : rpc[p] = "done"
    /\ BothReadFirst
    /\ shared_kind = "subject"
    /\ CountOnTop(before) = 2
    /\ CountOnTop(shared) = 3
    /\ Occ(RaceText(events[3].p)[1], shared) = 0

\* C18: the loop of split_on_silence terminates: every turn moves start_time
\* strictly forward, also when the end is snapped to the end of the last
\* non-silent interval; no chunk is empty; and the loop ends, with start_time
\* at len(audio).
C18_LoopTerminates ==
    /\ [][start_time' # start_time => start_time' > start_time]_vars
    /\ [][chunks' # chunks => start_time' > start_time]_vars
    /\ [](\A i \in 1..Len(chunks) : chunks[i].s < chunks[i].e)
    /\ [](Len(chunks) <= audioLen)
    /\ [](cpc = "done" => start_time = audioLen)
    /\ <>(cpc = "done")

\* the loop has ended after a turn that snapped the end back
C18_Witness ==
    /\ cpc = "done"
    /\ Len(chunks) >= 3
    /\ \E i \in 1..Len(chunks) :
          /\ chunks[i].e < audioLen
          /\ chunks[i].e - chunks[i].s < chunkLen

====
